---- MODULE Spec2Model ----
(***************************************************************************)
(* AbstractLocator (src/abstractLocator.ts): scanning of the configured    *)
(* base folders for project directories, the JSON cache of the result and  *)
(* the lookup / refresh operations built on it.                            *)
(*                                                                         *)
(* A path string is modelled by the sequence of its segments, that is by   *)
(* s.split(path.sep): "/h/a" is <<"", "h", "a">>, "/h/" is <<"", "h", "">> *)
(* and "$home/a" is <<"$home", "a">>.                                      *)
(***************************************************************************)
EXTENDS Integers, Sequences, FiniteSets, TLC

VARIABLES
    loc,         \* the locator's fields
    cacheFile,   \* the cache file on disk
    scans,       \* the locateProjects() calls that started a scan, in call order
    lastCall,    \* the most recent locateProjects() call
    walks,       \* the walkers started by the scans
    micro,       \* settled Promise.all joins whose callback has not run yet
    tested,      \* history: the directory just handed to processDirectory
    filtered,    \* history: the directory filterDir has just refused
    hist,        \* history: per scan, what touched dirList while it was in flight
    lastOp       \* history: the last public operation and what it returned

vars == <<loc, cacheFile, scans, lastCall, walks, micro, tested, filtered, hist, lastOp>>

\* ------------------------------------------------------------- bounds
\* The number of scans (locateProjects() calls that walk the disk) of a run.
MaxScans == 2

\* The largest path depth and the largest maxDepth isMaxDeptReached is tried on.
MaxPathDepth == 4

\* --------------------------------------------------------- file system
HomeDir == <<"", "h">>

P_h == <<"", "h">>
P_ha == <<"", "h", "a">>
P_han == <<"", "h", "a", "n">>
P_v == <<"", "v">>
P_x == <<"", "x">>

\* The directories on disk (fixed: the file system does not change); /x is none.
Dirs == {P_h, P_ha, P_han, P_v}

\* Directories whose readdir fails (permission denied).
Unreadable == {P_v}

\* The directories the variant's isRepoDir hook accepts.
Repos == {P_ha, P_han}

\* ------------------------------------------------------------ path utils
IsPrefix(p, q) == Len(p) <= Len(q) /\ SubSeq(q, 1, Len(p)) = p

RECURSIVE Normalize(_)
\* What the file system and path.join make of a path: trailing separators go.
Normalize(p) ==
    IF Len(p) > 1 /\ p[Len(p)] = "" THEN Normalize(SubSeq(p, 1, Len(p) - 1)) ELSE p

Basename(p) == LET n == Normalize(p) IN n[Len(n)]

ExistsSync(p) == Normalize(p) \in Dirs

\* readdir + path.join(entry, part)
Children(entry) ==
    {d \in Dirs : Len(d) = Len(Normalize(entry)) + 1 /\ IsPrefix(Normalize(entry), d)}

LowerSeg(s) == CASE s = "H" -> "h" [] s = "A" -> "a" [] OTHER -> s

ToLocaleLowerCase(p) == [i \in DOMAIN p |-> LowerSeg(p[i])]

CompactHomePath(p) ==
    IF IsPrefix(HomeDir, p)
    THEN <<"$home">> \o SubSeq(p, Len(HomeDir) + 1, Len(p))
    ELSE p

ExpandHomePath(p) ==
    IF Len(p) > 0 /\ p[1] = "$home" THEN HomeDir \o Tail(p) ELSE p

\* ------------------------------------------------------- variant hooks
IsRepoDir(projectPath) == Normalize(projectPath) \in Repos

DecideProjectName(projectPath) == Basename(projectPath)

\* ------------------------------------------------------------ cache file
NoFile == [kind |-> "none", list |-> <<>>]

Corrupt == [kind |-> "corrupt", list |-> <<>>]

Stringify(list) == [kind |-> "json", list |-> list]

Parse(file) == file.list

DirInfo(fullPath, name) == [fullPath |-> fullPath, name |-> name]

\* ------------------------------------------------------- configuration
Config(baseFolders, ignoredFolders, maxDepthRecursion, cacheProjectsBetweenSessions) ==
    [baseFolders |-> baseFolders, ignoredFolders |-> ignoredFolders,
     maxDepthRecursion |-> maxDepthRecursion,
     cacheProjectsBetweenSessions |-> cacheProjectsBetweenSessions]

\* The host configurations (namespace projectManager) the model draws from:
\* the defaults; ["/h/"] with depth 1; ["$home", "/x", "/v"], either ignoring
\* "a" with no depth limit, or with depth 1 and no cache; ["/h/a"] with depth 0.
HostConfigs ==
    { Config(<<>>, <<>>, -1, TRUE),
      Config(<<P_h \o <<"">>>>, <<>>, 1, TRUE),
      Config(<<<<"$home">>, P_x, P_v>>, <<"a">>, -1, TRUE),
      Config(<<<<"$home">>, P_x, P_v>>, <<>>, 1, FALSE),
      Config(<<P_ha>>, <<>>, 0, TRUE) }

\* ---------------------------------------------------- locator, pure part
\* A state s threaded through the methods: s.l the locator, s.f the cache file.
GetPathDepth(s) == Len(s)

\* isMaxDeptReached without its maxDepth > 0 test.
IsMaxDeptReached_NoGuard(l, currentDepth, initialDepth) ==
    (currentDepth - initialDepth) > l.maxDepth

IsMaxDeptReached(l, currentDepth, initialDepth) ==
    (l.maxDepth > 0) /\ ((currentDepth - initialDepth) > l.maxDepth)

\* No folder counts as ignored.
IsFolderIgnored_Never(l, folder) == FALSE

IsFolderIgnored(l, folder) ==
    \E i \in DOMAIN l.ignoredFolders : l.ignoredFolders[i] = folder

IsAlreadyLocated(l) == l.useCachedProjects /\ l.alreadyLocated

\* setAlreadyLocated without its useCachedProjects test.
SetAlreadyLocated_Always(s, al) ==
    [l |-> [s.l EXCEPT !.alreadyLocated = al],
     f |-> IF al THEN Stringify(s.l.dirList) ELSE s.f]

\* setAlreadyLocated without its writeFileSync.
SetAlreadyLocated_NoWrite(s, al) ==
    IF s.l.useCachedProjects THEN [s EXCEPT !.l.alreadyLocated = al] ELSE s

SetAlreadyLocated(s, al) ==
    IF s.l.useCachedProjects
    THEN [l |-> [s.l EXCEPT !.alreadyLocated = al],
          f |-> IF al THEN Stringify(s.l.dirList) ELSE s.f]
    ELSE s

ClearDirList(s) == [s EXCEPT !.l.dirList = <<>>]

\* JSON.parse taking whatever the file holds.
InitializeCfgThrows_Never(s) == FALSE

\* JSON.parse throws on a corrupt file, before anything is assigned.
InitializeCfgThrows(s) == s.l.useCachedProjects /\ s.f.kind = "corrupt"

InitializeCfg(s) ==
    IF ~s.l.useCachedProjects
    THEN ClearDirList(s)
    ELSE IF s.f.kind # "none"
         THEN SetAlreadyLocated([s EXCEPT !.l.dirList = Parse(s.f)], TRUE)
         ELSE s

ArraysAreEquals(array1, array2) ==
    /\ Len(array1) = Len(array2)
    /\ \A i \in 1..Len(array1) : array1[i] = array2[i]

\* refreshConfig: the new locator and the value returned.
RefreshConfig(l, config) ==
    LET c1 == ~ArraysAreEquals(l.baseFolders, config.baseFolders)
        l1 == IF c1 THEN [l EXCEPT !.baseFolders = config.baseFolders] ELSE l
        c2 == ~ArraysAreEquals(l1.baseFolders, config.ignoredFolders)
        l2 == IF c2 THEN [l1 EXCEPT !.ignoredFolders = config.ignoredFolders] ELSE l1
        c3 == l2.maxDepth # config.maxDepthRecursion
        l3 == IF c3 THEN [l2 EXCEPT !.maxDepth = config.maxDepthRecursion] ELSE l2
        c4 == l3.useCachedProjects # config.cacheProjectsBetweenSessions
        l4 == IF c4
              THEN [l3 EXCEPT !.useCachedProjects = config.cacheProjectsBetweenSessions]
              ELSE l3
    IN [l |-> l4, ret |-> (c1 \/ c2 \/ c3 \/ c4)]

\* The fields as the constructor sets them before it calls refreshConfig.
Constructed ==
    [maxDepth |-> -1, ignoredFolders |-> <<>>, useCachedProjects |-> TRUE,
     alreadyLocated |-> FALSE, baseFolders |-> <<>>, dirList |-> <<>>]

AddToList(s, projectPath, projectName) ==
    [s EXCEPT !.l.dirList = Append(@, DirInfo(projectPath, projectName))]

ProcessDirectory(s, absPath) ==
    IF IsRepoDir(absPath) THEN AddToList(s, absPath, DecideProjectName(absPath)) ELSE s

\* filterDir without its isFolderIgnored test.
FilterDir_DepthOnly(l, dir, depth) ==
    ~IsMaxDeptReached(l, GetPathDepth(dir), depth)

\* The walker's filterDir callback.
FilterDir(l, dir, depth) ==
    ~(IsFolderIgnored(l, Basename(dir)) \/ IsMaxDeptReached(l, GetPathDepth(dir), depth))

\* --------------------------------------------------- existsWithRootPath
NotFound == [found |-> FALSE, rootPath |-> <<>>, name |-> ""]

Project(element) == [found |-> TRUE, rootPath |-> element.fullPath, name |-> element.name]

\* The comparison without toLocaleLowerCase.
MatchesRootPath_CaseSensitive(element, rootPath) ==
    \/ element.fullPath = rootPath
    \/ element.fullPath = CompactHomePath(rootPath)

\* The comparison of one dirList element with the path asked for.
MatchesRootPath(element, rootPath) ==
    LET rootPathUsingHome == ToLocaleLowerCase(CompactHomePath(rootPath))
    IN \/ ToLocaleLowerCase(element.fullPath) = ToLocaleLowerCase(rootPath)
       \/ ToLocaleLowerCase(element.fullPath) = rootPathUsingHome

\* The for loop: the first matching element, or nothing.
FindRootPath(list, rootPath) ==
    IF \E i \in DOMAIN list : MatchesRootPath(list[i], rootPath)
    THEN LET i == CHOOSE k \in DOMAIN list :
                      /\ MatchesRootPath(list[k], rootPath)
                      /\ \A j \in 1..(k - 1) : ~MatchesRootPath(list[j], rootPath)
         IN Project(list[i])
    ELSE NotFound

\* existsWithRootPath without its isAlreadyLocated test.
ExistsResult_Unguarded(s, rootPath) ==
    FindRootPath(InitializeCfg(s).l.dirList, rootPath)

\* What existsWithRootPath(rootPath) returns when called on state s (null and
\* undefined are both NotFound).
ExistsResult(s, rootPath) ==
    LET s1 == InitializeCfg(s)
    IN IF ~IsAlreadyLocated(s1.l) THEN NotFound
       ELSE FindRootPath(s1.l.dirList, rootPath)

\* The paths existsWithRootPath is asked about: "/h/A" and "$home/a".
Queries == { <<"", "h", "A">>, <<"$home", "a">> }

\* ------------------------------------------------------- locateProjects
\* The forEach aborted at the first missing base folder.
Started_UntilMissing(l) ==
    {i \in DOMAIN l.baseFolders :
        \A j \in 1..i : ExistsSync(ExpandHomePath(l.baseFolders[j]))}

\* The base folders (by index) that exist on disk: a walker is started for each.
Started(l) ==
    {i \in DOMAIN l.baseFolders : ExistsSync(ExpandHomePath(l.baseFolders[i]))}

\* (found is history: the directories of this walk that addToList was called for.)
\* An entry the walker has yet to visit; chain is history: the directories
\* descended through to reach it, each with the ignored list it was filtered under.
Entry(dir, chain) == [dir |-> dir, chain |-> chain]

NewWalk(c, i, expandedBasePath) ==
    [scan |-> c, idx |-> i, base |-> expandedBasePath,
     depth |-> GetPathDepth(expandedBasePath),
     pend |-> {Entry(expandedBasePath, {})}, errors |-> FALSE, ended |-> FALSE,
     found |-> <<>>]

\* The promise of a call that scans: st is the state of the promise returned,
\* join that of Promise.all(promises), notified whether showErrorMessage ran.
ScanRec(join) ==
    [st |-> "pending", res |-> <<>>, join |-> join, notified |-> FALSE]

\* Scan c has walks running or its join's callback to run.
InFlight(c, ws, mi) ==
    \/ \E w \in ws : w.scan = c /\ ~w.ended
    \/ \E i \in DOMAIN mi : mi[i] = c

\* History of a scan: "alone" when nothing else touched dirList while it was
\* in flight, else the worst that did: existsWithRootPath dropping entries
\* ("queried"), clearDirList or refreshProjects ("cleared"), another scan
\* ("overlapped").
Rank(h) ==
    CASE h = "alone" -> 0 [] h = "queried" -> 1 [] h = "cleared" -> 2 [] OTHER -> 3

Disturb(hs, ws, mi, how) ==
    [c \in DOMAIN hs |->
        IF InFlight(c, ws, mi) /\ Rank(how) > Rank(hs[c]) THEN how ELSE hs[c]]

\* A call: how it was answered, its scan (0: none) and what it resolved with when
\* it resolved at once.
CallRec(mode, scan, res) == [mode |-> mode, scan |-> scan, res |-> res]

NoCall == CallRec("none", 0, <<>>)

\* Whether the promise of call k has resolved, and with what.
CallResolved(k, ss) ==
    \/ k.mode \in {"empty", "cache"}
    \/ k.mode = "walk" /\ ss[k.scan].st = "resolved"

CallResult(k, ss) == IF k.mode = "walk" THEN ss[k.scan].res ELSE k.res

\* A race in place of the join: one of the walks has reported its end.
AllWalksEnded_AnyEnded(ws, c) == \E w \in ws : w.scan = c /\ w.ended

\* Promise.all over the walks of scan c: every one of them has reported its end.
AllWalksEnded(ws, c) == \A w \in ws : w.scan = c => w.ended

\* The body of the promise locateProjects returns, run on state s; c is the
\* scan it starts if it starts one, T the base folders (by index) for which
\* walker() throws.
Locate(s, c, T) ==
    IF Len(s.l.baseFolders) = 0
    THEN [s |-> s, call |-> CallRec("empty", 0, <<>>), scan |-> <<>>,
          walks |-> {}, micro |-> <<>>]
    ELSE IF InitializeCfgThrows(s)
    THEN [s |-> s, call |-> CallRec("throw", 0, <<>>), scan |-> <<>>,
          walks |-> {}, micro |-> <<>>]
    ELSE LET s1 == InitializeCfg(s) IN
         IF IsAlreadyLocated(s1.l)
         THEN [s |-> s1, call |-> CallRec("cache", 0, s1.l.dirList), scan |-> <<>>,
               walks |-> {}, micro |-> <<>>]
         ELSE LET s2 == ClearDirList(s1)
                  st == Started(s2.l)
                  join == IF T \cap st # {} THEN "rejected"
                          ELSE IF st = {} THEN "fulfilled" ELSE "open"
              IN [s |-> s2, call |-> CallRec("walk", c, <<>>),
                  scan |-> <<ScanRec(join)>>,
                  walks |-> {NewWalk(c, i, ExpandHomePath(s2.l.baseFolders[i])) :
                                 i \in st \ T},
                  micro |-> IF join = "open" THEN <<>> ELSE <<c>>]

\* Whether locateProjects on state s walks the disk.
Scans(s) ==
    /\ Len(s.l.baseFolders) > 0
    /\ ~InitializeCfgThrows(s)
    /\ ~IsAlreadyLocated(InitializeCfg(s).l)

\* The then callback showing the error message as well.
ThenJoin_Notifies(s, ss, c) ==
    LET s1 == SetAlreadyLocated(s, TRUE)
    IN [s |-> s1,
        scans |-> [ss EXCEPT ![c].st = "resolved", ![c].res = s1.l.dirList,
                             ![c].join = "fulfilled", ![c].notified = TRUE]]

\* The then callback of the join.
ThenJoin(s, ss, c) ==
    LET s1 == SetAlreadyLocated(s, TRUE)
    IN [s |-> s1,
        scans |-> [ss EXCEPT ![c].st = "resolved", ![c].res = s1.l.dirList,
                             ![c].join = "fulfilled"]]

\* refreshProjects without its unlinkSync.
RefreshProjectsPrefix_KeepFile(s, config) ==
    LET r == RefreshConfig(s.l, config)
        s1 == ClearDirList([s EXCEPT !.l = r.l])
    IN [s |-> SetAlreadyLocated(s1, FALSE), ret |-> r.ret]

\* refreshProjects up to its call of locateProjects.
RefreshProjectsPrefix(s, config) ==
    LET r == RefreshConfig(s.l, config)
        s1 == ClearDirList([s EXCEPT !.l = r.l])
        s2 == [s1 EXCEPT !.f = NoFile]
    IN [s |-> SetAlreadyLocated(s2, FALSE), ret |-> r.ret]

\* -------------------------------------------------------------- actions
\* lastOp, for the step just taken: the public operation (op), what it returned
\* (ret) and what held when it was called (chg: the host configuration differed
\* from the locator's; cached: useCachedProjects; hadCache: the cache file
\* existed; prevDone, prevRes: the call before had resolved, and with what;
\* lost: the operation dropped entries of dirList; stored: the locator then held the
\* host configuration).
Idle == [op |-> "none", ret |-> FALSE, chg |-> FALSE, cached |-> FALSE,
         hadCache |-> FALSE, prevDone |-> FALSE, prevRes |-> <<>>, lost |-> FALSE,
         stored |-> FALSE]

Cur == [l |-> loc, f |-> cacheFile]

ConfigOf(l) ==
    Config(l.baseFolders, l.ignoredFolders, l.maxDepth, l.useCachedProjects)

\* After construction, with the cache file a previous session may have left.
Init ==
    /\ \E config \in HostConfigs : loc = RefreshConfig(Constructed, config).l
    /\ cacheFile \in {NoFile, Stringify(<<DirInfo(P_ha, "a")>>), Corrupt}
    /\ scans = <<>>
    /\ lastCall = NoCall
    /\ walks = {}
    /\ micro = <<>>
    /\ tested = {}
    /\ filtered = {}
    /\ hist = <<>>
    /\ lastOp = Idle

\* walker() throws for none of the base folders, or for the first it is called on.
Throwing(l) ==
    {{}} \cup {{i} : i \in {j \in Started(l) : \A k \in Started(l) : j <= k}}

\* History kept no longer than it is read: what an earlier scan resolved with
\* is forgotten once a later call is made.
Forget(ss) == [i \in DOMAIN ss |-> [ss[i] EXCEPT !.res = <<>>]]

\* The call's effect on the variables, r being what Locate made of it.
Quiet == \A c \in DOMAIN scans : ~InFlight(c, walks, micro)

\* how: what the call does to dirList when it starts no scan.
Called(r, how) ==
    /\ loc' = r.s.l
    /\ cacheFile' = r.s.f
    /\ scans' = Forget(scans) \o r.scan
    /\ hist' = IF r.scan # <<>>
               THEN Append(Disturb(hist, walks, micro, "overlapped"),
                           IF Quiet THEN "alone" ELSE "overlapped")
               ELSE Disturb(hist, walks, micro, how)
    /\ lastCall' = r.call
    /\ walks' = walks \cup r.walks
    /\ micro' = micro \o r.micro

LocateProjects ==
    /\ Scans(Cur) => Len(scans) < MaxScans
    /\ \E T \in Throwing(loc) :
         /\ (T # {} => Scans(Cur))
         /\ Called(Locate(Cur, Len(scans) + 1, T), "alone")
    /\ lastOp' = [Idle EXCEPT !.op = "locate",
                              !.cached = loc.useCachedProjects,
                              !.prevDone = CallResolved(lastCall, scans),
                              !.prevRes = IF CallResolved(lastCall, scans)
                                          THEN CallResult(lastCall, scans) ELSE <<>>]
    /\ tested' = {}
    /\ filtered' = {}

\* config: the host configuration as it is when refreshProjects reads it.
RefreshProjects ==
    /\ \E config \in HostConfigs :
         LET p == RefreshProjectsPrefix(Cur, config) IN
         /\ Scans(p.s) => Len(scans) < MaxScans
         /\ \E T \in Throwing(p.s.l) :
              /\ (T # {} => Scans(p.s))
              /\ Called(Locate(p.s, Len(scans) + 1, T), "cleared")
         /\ lastOp' = [Idle EXCEPT !.op = "refresh", !.ret = p.ret,
                                   !.chg = (ConfigOf(loc) # config),
                                   !.cached = loc.useCachedProjects,
                                   !.hadCache = (cacheFile.kind # "none"),
                                   !.stored = (ConfigOf(p.s.l) = config)]
    /\ tested' = {}
    /\ filtered' = {}

\* History: some entry of the list old is not in the list new.
Drops(old, new) ==
    \E k \in DOMAIN old : \A j \in DOMAIN new : new[j] # old[k]

\* existsWithRootPath changes the locator by its initializeCfg alone; what it
\* returns is ExistsResult; when JSON.parse throws, so does the call.
ExistsWithRootPath(rootPath) ==
    /\ IF InitializeCfgThrows(Cur)
       THEN /\ UNCHANGED <<loc, cacheFile, hist>>
            /\ lastOp' = [Idle EXCEPT !.op = "existsThrows"]
       ELSE LET s1 == InitializeCfg(Cur) IN
            /\ loc' = s1.l
            /\ cacheFile' = s1.f
            /\ lastOp' = [Idle EXCEPT !.op = "exists",
                                      !.lost = Drops(loc.dirList, s1.l.dirList)]
            /\ hist' = IF Drops(loc.dirList, s1.l.dirList)
                       THEN Disturb(hist, walks, micro, "queried") ELSE hist
    /\ tested' = {}
    /\ filtered' = {}
    /\ UNCHANGED <<scans, lastCall, walks, micro>>

ClearDirListOp ==
    /\ loc' = ClearDirList(Cur).l
    /\ hist' = Disturb(hist, walks, micro, "cleared")
    /\ lastOp' = Idle
    /\ tested' = {}
    /\ filtered' = {}
    /\ UNCHANGED <<cacheFile, scans, lastCall, walks, micro>>

\* The join's callback runs once the synchronous caller is done.
RunMicrotask ==
    /\ micro # <<>>
    /\ LET c == Head(micro) IN
       IF scans[c].join = "fulfilled"
       THEN LET r == ThenJoin(Cur, scans, c) IN
            /\ loc' = r.s.l
            /\ cacheFile' = r.s.f
            /\ scans' = r.scans
       ELSE /\ scans' = [scans EXCEPT ![c].notified = TRUE]
            /\ UNCHANGED <<loc, cacheFile>>
    /\ micro' = Tail(micro)
    /\ lastOp' = Idle
    /\ tested' = {}
    /\ filtered' = {}
    /\ UNCHANGED <<lastCall, walks, hist>>

\* doneOne of walker w (already updated to w2): the end event when nothing
\* is pending, and with it the join of the scan when this was its last walk.
DoneOne(w, w2, s) ==
    LET ends == w2.pend = {}
        w3 == [w2 EXCEPT !.ended = ends]
        ws == (walks \ {w}) \cup {w3}
        c == w.scan
    IN /\ walks' = ws
       /\ IF ends /\ scans[c].join = "open" /\ AllWalksEnded(ws, c)
          THEN LET r == ThenJoin(s, scans, c) IN
               /\ loc' = r.s.l
               /\ cacheFile' = r.s.f
               /\ scans' = r.scans
          ELSE /\ loc' = s.l
               /\ cacheFile' = s.f
               /\ scans' = scans

\* The walker's go(entry) once its lstat and readdir have answered: filterDir
\* decides on the descent; a directory that passes and can be read is handed
\* to processDirectory (the dir event) and its children are queued; one that
\* cannot be read raises the error event, which handleError logs.
WalkEntry(w, e) ==
    /\ micro = <<>>
    /\ e \in w.pend
    /\ IF ~FilterDir(loc, e.dir, w.depth)
       THEN /\ DoneOne(w, [w EXCEPT !.pend = @ \ {e}], Cur)
            /\ tested' = {}
            /\ filtered' = {[scan |-> w.scan, base |-> w.base, dir |-> e.dir,
                             ign |-> loc.ignoredFolders, md |-> loc.maxDepth]}
       ELSE IF Normalize(e.dir) \in Unreadable
       THEN /\ DoneOne(w, [w EXCEPT !.pend = @ \ {e}, !.errors = TRUE], Cur)
            /\ tested' = {}
            /\ filtered' = {}
       ELSE /\ DoneOne(w, [w EXCEPT
                             !.found = IF IsRepoDir(e.dir) THEN Append(@, e.dir) ELSE @,
                             !.pend = (@ \ {e}) \cup
                                {Entry(d, e.chain \cup
                                          {[dir |-> e.dir, ign |-> loc.ignoredFolders]}) :
                                    d \in Children(e.dir)}],
                       ProcessDirectory(Cur, e.dir))
            /\ tested' = {[scan |-> w.scan, base |-> w.base, dir |-> e.dir,
                           ign |-> loc.ignoredFolders, md |-> loc.maxDepth,
                           chain |-> e.chain]}
            /\ filtered' = {}
    /\ lastOp' = Idle
    /\ UNCHANGED <<lastCall, micro, hist>>

Next ==
    \/ LocateProjects
    \/ RefreshProjects
    \/ \E p \in Queries : ExistsWithRootPath(p)
    \/ ClearDirListOp
    \/ RunMicrotask
    \/ \E w \in walks : \E e \in w.pend : WalkEntry(w, e)

Spec == Init /\ [][Next]_vars

\* --------------------------------------------------------------- claims
Range(f) == {f[i] : i \in DOMAIN f}

\* How many levels dir lies below base on disk.
LevelsBelow(dir, base) == Len(Normalize(dir)) - Len(Normalize(base))

\* The directories from base down to the parent of dir.
Ancestors(dir, base) ==
    {d \in Dirs : /\ IsPrefix(Normalize(base), d)
                  /\ IsPrefix(d, Normalize(dir))
                  /\ d # Normalize(dir)}

\* C1: under a maxDepth N > 0, no directory more than N levels below the base
\* folder of its walk is handed to isRepoDir (or descended into).
C1_DepthLimit ==
    \A t \in tested : t.md > 0 => LevelsBelow(t.dir, t.base) <= t.md

\* C2: every directory handed to isRepoDir was reached through directories of
\* its walk none of which had its base name in the ignored list when the walker
\* decided on descending into it: nothing below an ignored directory is tested.
C2_IgnoredNotDescended ==
    \A t \in tested :
        /\ {Normalize(a.dir) : a \in t.chain} = Ancestors(t.dir, t.base)
        /\ \A a \in t.chain : Basename(a.dir) \notin Range(a.ign)

\* C2 witness: a walk of /h has tested /h and pruned its child "a", which is
\* ignored, so that the scan resolved without the projects below it.
C2_Witness ==
    \E w \in walks :
        /\ w.ended /\ w.base = P_h
        /\ IsFolderIgnored(loc, "a")
        /\ scans[w.scan].st = "resolved" /\ scans[w.scan].res = <<>>
        /\ lastCall.scan = w.scan

\* C3: a locateProjects() call made with caching enabled and base folders
\* configured, when the call before it has resolved, is answered from the
\* cache with the list the call before resolved with.
C3_Idempotent ==
    (lastOp.op = "locate" /\ lastOp.prevDone /\ lastOp.cached
        /\ Len(loc.baseFolders) > 0)
    => (lastCall.mode = "cache" /\ lastCall.res = lastOp.prevRes)

\* C4: after refreshProjects() the cache file is gone and the locateProjects()
\* call it made was not answered from the cache: it scans the base folders,
\* whatever the cache setting and the cache file were before.
C4_RefreshRescans ==
    lastOp.op = "refresh" =>
        /\ cacheFile = NoFile
        /\ lastCall.mode \in {"walk", "empty"}
        /\ Len(loc.baseFolders) > 0 =>
              /\ lastCall.mode = "walk"
              /\ lastCall.scan = Len(scans)
              /\ scans[lastCall.scan].st = "pending"

\* C4 witness: a refresh made while caching was on and a cache file existed
\* has started a scan.
C4_Witness ==
    /\ lastOp.op = "refresh" /\ lastOp.cached /\ lastOp.hadCache
    /\ lastCall.mode = "walk"
    /\ \E w \in walks : w.scan = lastCall.scan /\ ~w.ended

\* The paths held by the cache that existsWithRootPath answers from.
CachedPaths ==
    IF loc.useCachedProjects /\ cacheFile.kind = "json"
    THEN {e.fullPath : e \in Range(cacheFile.list)}
    ELSE {}

\* p names the path d in its expanded or in its home-compacted form, in any case.
Denotes(p, d) == ToLocaleLowerCase(ExpandHomePath(p)) = ToLocaleLowerCase(d)

\* C5 as stated: a located and cached path is found when asked for in its
\* expanded or in its home-compacted form, in any case.
C5_FoundInEitherForm ==
    \A d \in CachedPaths : \A p \in Queries :
        Denotes(p, d) =>
            /\ ExistsResult(Cur, p).found
            /\ ToLocaleLowerCase(ExistsResult(Cur, p).rootPath) = ToLocaleLowerCase(d)

\* C5 amended: a located and cached path is found, with the name cached for
\* it, when asked for in its expanded form, in any case; asked for in its
\* home-compacted form, it is compared as "$home/..." with the stored expanded
\* paths and nothing is found.
C5_FoundInExpandedForm ==
    \A p \in Queries :
        /\ \A d \in CachedPaths :
              ToLocaleLowerCase(p) = ToLocaleLowerCase(d) =>
                  /\ ExistsResult(Cur, p).found
                  /\ ExistsResult(Cur, p).rootPath = d
                  /\ \E e \in Range(cacheFile.list) :
                        e.fullPath = d /\ e.name = ExistsResult(Cur, p).name
        /\ (p[1] = "$home" /\ \A d \in CachedPaths : d[1] # "$home")
              => ExistsResult(Cur, p) = NotFound

\* C5 witness: a scan has resolved and written /h/a to the cache, and asking
\* for "/h/A" finds it.
C5_Witness ==
    /\ lastOp.op = "exists"
    /\ \E c \in DOMAIN scans : scans[c].st = "resolved"
    /\ P_ha \in CachedPaths
    /\ IsAlreadyLocated(loc)
    /\ ExistsResult(Cur, <<"", "h", "A">>) = [found |-> TRUE, rootPath |-> P_ha, name |-> "a"]

\* C6 as stated: called while isAlreadyLocated() is false, existsWithRootPath
\* returns not-found.
C6_NotLocatedNotFound ==
    (~IsAlreadyLocated(loc) /\ ~InitializeCfgThrows(Cur))
    => \A p \in Queries : ExistsResult(Cur, p) = NotFound

\* C6 amended: existsWithRootPath returns not-found when isAlreadyLocated() is
\* false once its own initializeCfg has run, that is when caching is disabled,
\* or when no scan has completed and there is no cache file to load; and it
\* never starts a walk or a scan.
C6_NotFoundWithoutCache ==
    /\ [](\A p \in Queries :
            (\/ ~loc.useCachedProjects
             \/ ~loc.alreadyLocated /\ cacheFile.kind = "none")
            => ExistsResult(Cur, p) = NotFound)
    /\ [][(\E p \in Queries : ExistsWithRootPath(p))
            => UNCHANGED <<walks, scans, lastCall, micro>>]_vars

\* C6 witness: a scan in flight has collected /h/a, nothing is located or
\* cached yet, and existsWithRootPath answers not-found.
C6_Witness ==
    /\ lastOp.op = "exists"
    /\ loc.useCachedProjects /\ ~loc.alreadyLocated /\ cacheFile.kind = "none"
    /\ \E e \in Range(loc.dirList) : e.fullPath = P_ha
    /\ \E w \in walks : ~w.ended
    /\ ExistsResult(Cur, P_ha) = NotFound

\* C7: refreshConfig() (so refreshProjects()) returns true exactly when the
\* host configuration differs from what the locator held.
C7_ReturnsChanged ==
    lastOp.op = "refresh" => (lastOp.ret = lastOp.chg)

\* C8: a scan has resolved only if every walk it started has reported its end.
C8_JoinBarrier ==
    \A c \in DOMAIN scans :
        scans[c].st = "resolved" => \A w \in walks : w.scan = c => w.ended

\* C8 witness: a scan of two base folders has resolved, both walks ended.
C8_Witness ==
    \E c \in DOMAIN scans :
        /\ scans[c].st = "resolved"
        /\ Cardinality({w \in walks : w.scan = c /\ w.ended}) = 2

\* The walks of scan c have all ended and its join's callback is not waiting.
ScanOver(c) ==
    /\ \A w \in walks : w.scan = c => w.ended
    /\ c \notin Range(micro)

\* C9: a scan whose walks have all reported their end has resolved, and the
\* step that resolves a scan resolves it with the list accumulated; with
\* caching enabled the locator is then located and the cache file holds
\* exactly that list; with caching disabled the cache file is as it was and
\* isAlreadyLocated() is false.
C9_Completion ==
    /\ [](\A c \in DOMAIN scans :
            (ScanOver(c) /\ scans[c].join # "rejected") => scans[c].st = "resolved")
    /\ [][\A c \in DOMAIN scans :
            (scans[c].st = "pending" /\ scans'[c].st = "resolved") =>
                /\ scans'[c].res = loc'.dirList
                /\ IF loc.useCachedProjects
                   THEN /\ loc'.alreadyLocated
                        /\ IsAlreadyLocated(loc')
                        /\ cacheFile' = Stringify(scans'[c].res)
                   ELSE /\ cacheFile' = cacheFile
                        /\ ~IsAlreadyLocated(loc')]_vars

\* C9 witness: with caching disabled and no cache file, a scan has resolved
\* with the projects it found.
C9_Witness ==
    \E c \in DOMAIN scans :
        /\ scans[c].st = "resolved" /\ scans[c].res # <<>>
        /\ scans[c].res = loc.dirList
        /\ ~loc.useCachedProjects /\ cacheFile = NoFile

\* C10: a locateProjects() call whose walks have all ended or failed has
\* settled, and when one of its walks raised an error the caller has been
\* notified of the failure.
C10_Settles ==
    \A c \in DOMAIN scans :
        ScanOver(c) =>
            /\ scans[c].st # "pending"
            /\ (\E w \in walks : w.scan = c /\ w.errors) => scans[c].notified

\* The walks scan c started.
WalksOf(c) == {w \in walks : w.scan = c}

\* C11: a locateProjects() call that scans starts, when no walker() call
\* throws, one walk for each configured base folder that exists on disk, the
\* missing ones being skipped; and once those walks have ended the scan has
\* resolved, with the matches of its walks when nothing else touched dirList
\* meanwhile.
C11_MissingBaseSkipped ==
    /\ (lastOp.op \in {"locate", "refresh"} /\ lastCall.mode = "walk"
            /\ scans[lastCall.scan].join # "rejected")
       => /\ {w.idx : w \in WalksOf(lastCall.scan)}
                = {i \in DOMAIN loc.baseFolders :
                      Normalize(ExpandHomePath(loc.baseFolders[i])) \in Dirs}
          /\ \A w \in WalksOf(lastCall.scan) :
                w.base = ExpandHomePath(loc.baseFolders[w.idx])
    /\ \A c \in DOMAIN scans :
          (/\ scans[c].join # "rejected"
           /\ \E i \in DOMAIN loc.baseFolders :
                 Normalize(ExpandHomePath(loc.baseFolders[i])) \notin Dirs
           /\ lastCall.scan = c /\ ~InFlight(c, walks, micro))
          => /\ scans[c].st = "resolved"
             /\ hist[c] = "alone"
                => \A w \in WalksOf(c) : \A i \in DOMAIN w.found :
                      \E k \in DOMAIN scans[c].res : scans[c].res[k].fullPath = w.found[i]

\* C11 witness: with the missing /x among the base folders, the scan has
\* resolved with a project found under another base folder.
C11_Witness ==
    \E c \in DOMAIN scans :
        /\ P_x \in Range(loc.baseFolders)
        /\ scans[c].st = "resolved" /\ lastCall.scan = c
        /\ Cardinality(WalksOf(c)) = 2 /\ hist[c] = "alone"
        /\ \E k \in DOMAIN scans[c].res : scans[c].res[k].fullPath = P_ha

\* The repositories a walk from base reports under the configuration of l:
\* those reached from base through directories filterDir lets pass.
Expected(l, base) ==
    {d \in Repos :
        /\ IsPrefix(Normalize(base), d)
        /\ FilterDir(l, base, GetPathDepth(base))
        /\ \A a \in (Ancestors(d, base) \cup {d}) \ {Normalize(base)} :
              FilterDir(l, a, GetPathDepth(base)) /\ a \notin Unreadable}

RECURSIVE IsSubseq(_, _)
\* s is t with some of its elements left out.
IsSubseq(s, t) ==
    IF s = <<>> THEN TRUE
    ELSE IF t = <<>> THEN FALSE
    ELSE IF Head(s) = Head(t) THEN IsSubseq(Tail(s), Tail(t))
    ELSE IsSubseq(s, Tail(t))

\* The list res holds exactly one entry for each directory each walk of scan c
\* added, those of one walk in the order it added them.
OnePerPair(c, res) ==
    /\ \A w \in WalksOf(c) : Range(w.found) = Expected(loc, w.base)
    /\ \A k \in DOMAIN res :
          res[k].fullPath \in Dirs /\ res[k].name = Basename(res[k].fullPath)
    /\ \A d \in Dirs :
          Cardinality({k \in DOMAIN res : res[k].fullPath = d})
              = Cardinality({w \in WalksOf(c) : d \in Range(w.found)})
    /\ \A w \in WalksOf(c) :
          IsSubseq(w.found, [k \in DOMAIN res |-> res[k].fullPath])

\* C12: the list a scan resolves with, no other scan having been in flight
\* during it (and no clearDirList() or refreshProjects() call made), holds
\* exactly one entry per existing base folder and unpruned repository under
\* it, the entries of one base folder in its walk order.
C12_NoDedupNoLoss ==
    \A c \in DOMAIN scans :
        (lastCall.scan = c /\ scans[c].st = "resolved"
            /\ hist[c] \in {"alone", "queried"})
        => OnePerPair(c, scans[c].res)

\* C13: whatever the locator held and whatever the host configuration is,
\* after refreshConfig() (called by refreshProjects()) the locator's baseFolders, ignoredFolders, maxDepth
\* and useCachedProjects are those of the host configuration.
C13_StoresConfig ==
    lastOp.op = "refresh" => lastOp.stored

BeyondDepth(r) ==
    (r.md > 0) /\ ((GetPathDepth(r.dir) - GetPathDepth(r.base)) > r.md)

C16_DepthDisabled ==
    /\ \A md \in (0 - 1)..MaxPathDepth : \A cd, id \in 0..MaxPathDepth :
          LET l == [loc EXCEPT !.maxDepth = md] IN
          /\ md <= 0 => ~IsMaxDeptReached(l, cd, id)
          /\ md > 0 => (IsMaxDeptReached(l, cd, id) <=> (cd - id) > md)
    /\ \A f \in filtered : f.md <= 0 => Basename(f.dir) \in Range(f.ign)
    /\ \A f \in filtered :
          (f.md > 0 /\ Basename(f.dir) \notin Range(f.ign))
          => (GetPathDepth(f.dir) - GetPathDepth(f.base)) > f.md

\* C16 witness: under maxDepth 0 the walk of /h/a has handed /h/a/n, one
\* level below its base folder, to processDirectory.
C16_Witness ==
    \E t \in tested :
        t.md = 0 /\ t.base = P_ha /\ t.dir = P_han /\ loc.maxDepth = 0
        /\ \E k \in DOMAIN loc.dirList : loc.dirList[k].fullPath = P_han

\* C17: with caching enabled and a corrupt cache file, the initializeCfg of
\* locateProjects() (base folders configured) and of existsWithRootPath()
\* throws to its caller: the promise is rejected, the query throws, dirList,
\* alreadyLocated and the cache file are as they were and no scan is started.
C17_CorruptPropagates ==
    [][(loc.useCachedProjects /\ cacheFile.kind = "corrupt")
        => /\ (lastOp'.op = "locate" /\ Len(loc.baseFolders) > 0)
                => /\ lastCall'.mode = "throw"
                   /\ UNCHANGED <<loc, cacheFile, walks, micro>>
                   /\ Len(scans') = Len(scans)
           /\ lastOp'.op # "exists"
           /\ lastOp'.op = "existsThrows"
                => UNCHANGED <<loc, cacheFile, walks, micro, scans, lastCall>>]_vars

\* C17 witness: locateProjects() has just been rejected by the corrupt cache
\* file, which is still there, with nothing located.
C17_Witness ==
    /\ lastOp.op = "locate" /\ lastCall.mode = "throw"
    /\ loc.useCachedProjects /\ cacheFile = Corrupt
    /\ ~loc.alreadyLocated /\ walks = {}

\* C18: an existsWithRootPath call discards no entry of the in-memory
\* dirList, whatever the cache setting and whether a scan is in flight.
C18_ExistsKeepsDirList ==
    lastOp.op = "exists" => ~lastOp.lost

\* The cache file exists and holds the in-memory dirList.
FileIsDirList == cacheFile.kind = "json" /\ cacheFile.list = loc.dirList

\* C19 as stated: in every reachable state, if isAlreadyLocated() is true the
\* cache file exists and its content equals the in-memory dirList.
C19_CacheConsistent ==
    IsAlreadyLocated(loc) => FileIsDirList

\* C19 amended: whenever isAlreadyLocated() is true the cache file exists and
\* parses; its content equals dirList at the moment the locator becomes
\* located and after every locateProjects() answered from the cache and every
\* existsWithRootPath(); while located, the equality is broken only by
\* clearDirList() emptying the list or by a walk still running adding to it.
C19_CacheConsistentWhenLoaded ==
    /\ [](IsAlreadyLocated(loc) => cacheFile.kind = "json")
    /\ []((lastOp.op = "exists" /\ IsAlreadyLocated(loc)) => FileIsDirList)
    /\ []((lastOp.op = "locate" /\ lastCall.mode = "cache")
            => (IsAlreadyLocated(loc) /\ FileIsDirList /\ lastCall.res = loc.dirList))
    /\ [][(IsAlreadyLocated(loc') /\ ~IsAlreadyLocated(loc))
            => cacheFile' = Stringify(loc'.dirList)]_vars
    /\ [][(IsAlreadyLocated(loc) /\ FileIsDirList
              /\ IsAlreadyLocated(loc') /\ cacheFile'.list # loc'.dirList)
            => /\ cacheFile' = cacheFile
               /\ \/ loc'.dirList = <<>> /\ tested' = {}
                  \/ /\ tested' # {}
                     /\ \E d \in Repos :
                           loc'.dirList = Append(loc.dirList, DirInfo(d, Basename(d)))]_vars

\* C19 witness: a scan has resolved and written the cache, and after an
\* existsWithRootPath() call the file holds the projects dirList holds.
C19_Witness ==
    /\ lastOp.op = "exists" /\ IsAlreadyLocated(loc) /\ FileIsDirList
    /\ Len(loc.dirList) > 1
    /\ \E c \in DOMAIN scans : scans[c].st = "resolved"

\* How often directory d is an entry of the list.
Count(list, d) == Cardinality({k \in DOMAIN list : list[k].fullPath = d})

\* C20: once every walk has finished and the scan started last has resolved,
\* dirList and (with caching enabled) the cache file hold no entry beyond
\* those the walks of that scan added: nothing a superseded scan appended.
C20_NoSupersededEntries ==
    (Quiet /\ lastCall.mode = "walk" /\ scans[lastCall.scan].st = "resolved")
    => \A d \in Dirs :
          LET n == Cardinality({w \in WalksOf(lastCall.scan) : d \in Range(w.found)})
          IN /\ Count(loc.dirList, d) <= n
             /\ Count(scans[lastCall.scan].res, d) <= n
             /\ (loc.useCachedProjects /\ cacheFile.kind = "json")
                   => Count(cacheFile.list, d) <= n

====
